---- MODULE Spec2Model ----
(***************************************************************************)
(* Polymarket Grapher: the acquisition and alignment core.                 *)
(*                                                                         *)
(*   plotter.py         build_step_aligned_df, make_chart                  *)
(*   crypto_api.py      fetch_crypto_price_range (Kraken OHLC pagination)  *)
(*   polymarket_api.py  fetch_token_price_history                          *)
(*   app2.py            the Streamlit script: session state, the two       *)
(*                      caches, one script run per user interaction        *)
(*                                                                         *)
(* Prices are integers (a price p stands for p/10), timestamps are integer *)
(* seconds.  A pandas Series is a sequence of <<label, value>> pairs in    *)
(* positional order; a DataFrame is its index plus one value column per    *)
(* name.                                                                   *)
(***************************************************************************)
EXTENDS Integers, Sequences, FiniteSets, TLC

VARIABLES
    \* ---- plotter.py, driven on its own (SpecAlign) and by the app (Spec)
    series_map,     \* name -> Series handed to build_step_aligned_df
    prob_df,        \* the DataFrame build_step_aligned_df returned
    fig,            \* the traces make_chart put on the figure
    show_sum,       \* the "Show Sum" toggle handed to make_chart
    al_pc,          \* position of the plotter driver
    \* ---- crypto_api.py: one call of fetch_crypto_price_range (SpecFetch)
    fpc,            \* "idle", "loop" (about to send a request), "returned", "raised"
    symbol,         \* the arguments of the call
    start_ts,
    end_ts,
    since,          \* the cursor sent with the next request
    out,            \* the points accumulated so far
    iters,          \* passes of the for loop begun so far
    nreq,           \* HTTP requests issued by this call
    fresult,        \* what the call returned or raised
    sent_since,     \* params["since"] of the request sent last
    resp,           \* what the request sent last was answered with
    \* ---- app2.py: st.session_state and the widgets (Spec)
    stage,          \* 1: the URL screen, 2: the chart screen
    event,          \* the loaded event
    crypto,         \* the "Compare with Cryptocurrency" choice
    selected,       \* the selected outcome keys, in insertion order
    history_cache,  \* token_id -> Series
    crypto_cache,   \* <<symbol, start_ts, end_ts>> -> Series
    fidelity,       \* the "History fidelity" slider
    fetched_with,   \* token_id -> the fidelity its cached series was fetched with
    requested,      \* the keys a connector was called for since the caches were reset
    run             \* what the last script run did

\* ------------------------------------------------------------------ bounds
\* Largest timestamp (seconds) a Kraken OHLC row carries.
MaxTs == 3

\* Largest timestamp of the series handed to the plotter on its own.
MaxLabel == 2

\* Largest number of rows in a generated OHLC page.
MaxRows == 1

\* ------------------------------------------------------------- plain data
\* float('nan'): the value pandas gives a missing cell (plotter.py reindex).
NaN == -1

\* Sample prices (tenths).
Prices == {1, 2}

TsRange == 0..MaxTs

Range(s) == {s[i] : i \in DOMAIN s}

SetMin(S) == CHOOSE x \in S : \A y \in S : x <= y

SetMax(S) == CHOOSE x \in S : \A y \in S : y <= x

Front(s) == SubSeq(s, 1, Len(s) - 1)

Count(s, x) == Cardinality({i \in DOMAIN s : s[i] = x})

\* ------------------------------------------------------- pandas primitives
\* Series.index and Series.values of a Series kept as <<label, value>> pairs.
IndexOf(s) == [i \in DOMAIN s |-> s[i][1]]

ValuesOf(s) == [i \in DOMAIN s |-> s[i][2]]

\* pd.Series(vals, index=idx)
PdSeries(vals, idx) == [i \in DOMAIN idx |-> <<idx[i], vals[i]>>]

\* Insert x behind every element whose label is <= x's (keeps ties in order).
InsertByLabel(sorted, x) ==
    LET k == Cardinality({i \in DOMAIN sorted : sorted[i][1] <= x[1]})
    IN  SubSeq(sorted, 1, k) \o <<x>> \o SubSeq(sorted, k + 1, Len(sorted))

\* Series.sort_index(): ascending by label; on these short inputs numpy's
\* sort is an insertion sort, so equal labels keep their order.
RECURSIVE sort_index(_)
sort_index(s) ==
    IF s = <<>> THEN <<>>
    ELSE InsertByLabel(sort_index(Front(s)), s[Len(s)])

\* A sequence of labels sorted ascending (DataFrame(index=...).sort_index()).
SortLabels(idx) == IndexOf(sort_index([i \in DOMAIN idx |-> <<idx[i], 0>>]))

\* The labels of S ascending, each repeated mult[x] times.
RECURSIVE Expand(_, _)
Expand(S, mult) ==
    IF S = {} THEN <<>>
    ELSE LET m == SetMin(S)
         IN  [i \in 1..mult[m] |-> m] \o Expand(S \ {m}, mult)

\* Index.union(other): the sorted union; a label repeated in an input is
\* repeated as often as in the input that repeats it most.
index_union(a, b) ==
    LET labels == Range(a) \cup Range(b)
        mult == [x \in labels |-> IF Count(a, x) >= Count(b, x)
                                  THEN Count(a, x) ELSE Count(b, x)]
    IN  Expand(labels, mult)

HasDuplicateLabels(s) == \E i, j \in DOMAIN s : i # j /\ s[i][1] = s[j][1]

\* Series.reindex(target) raises ValueError ("cannot reindex on an axis with
\* duplicate labels") unless the index is identical to the target.
ReindexRaises(s, target) == IndexOf(s) # target /\ HasDuplicateLabels(s)

\* Series.reindex(target).values: the value at each target label, NaN where
\* the series has no such label; an identical index is returned as a copy.
reindex(s, target) ==
    IF IndexOf(s) = target THEN ValuesOf(s)
    ELSE [i \in DOMAIN target |->
            IF \E j \in DOMAIN s : s[j][1] = target[i]
            THEN s[CHOOSE j \in DOMAIN s : s[j][1] = target[i]][2]
            ELSE NaN]

\* A faulty variant of ffill: missing cells are left missing.
ffill_none(vals) == vals

\* Series.ffill(): a missing cell takes the last defined value above it.
RECURSIVE ffill(_)
ffill(vals) ==
    IF vals = <<>> THEN <<>>
    ELSE LET above == ffill(Front(vals))
             v == vals[Len(vals)]
         IN  Append(above,
                    IF v # NaN THEN v
                    ELSE IF above = <<>> THEN NaN ELSE above[Len(above)])

\* -------------------------------------------------------------- plotter.py
\* pd.DataFrame(): no rows, no columns.
EmptyDataFrame == [ok |-> TRUE, index |-> <<>>, cols |-> <<>>]

\* The call did not return: reindex raised ValueError.
RaisedValueError == [ok |-> FALSE, index |-> <<>>, cols |-> <<>>]

\* all_index after the loop over series_map.values() (plotter.py 16-18).
RECURSIVE UnionAll(_, _)
UnionAll(smap, names) ==
    IF names = {} THEN <<>>
    ELSE LET n == CHOOSE x \in names : TRUE
             rest == names \ {n}
         IN  IF rest = {} THEN IndexOf(smap[n])
             ELSE index_union(UnionAll(smap, rest), IndexOf(smap[n]))

build_step_aligned_df(smap) ==
    IF DOMAIN smap = {} THEN EmptyDataFrame
    ELSE LET all_index == UnionAll(smap, DOMAIN smap)
             index == SortLabels(all_index)
         IN  IF \E n \in DOMAIN smap : ReindexRaises(smap[n], index)
             THEN RaisedValueError
             ELSE [ok |-> TRUE,
                   index |-> index,
                   cols |-> [n \in DOMAIN smap |-> ffill(reindex(smap[n], index))]]

\* x * 100.0 on a cell: NaN stays NaN.
Pct(v) == IF v = NaN THEN NaN ELSE v * 100

RECURSIVE SumSkipNa(_, _, _)
SumSkipNa(cols, names, i) ==
    IF names = {} THEN 0
    ELSE LET n == CHOOSE x \in names : TRUE
             v == cols[n][i]
         IN  (IF v = NaN THEN 0 ELSE v) + SumSkipNa(cols, names \ {n}, i)

\* DataFrame.sum(axis=1): skipna defaults to True, so a missing cell adds 0.
df_sum_axis1(df) ==
    [i \in DOMAIN df.index |-> SumSkipNa(df.cols, DOMAIN df.cols, i)]

NoTrace == [shown |-> FALSE, x |-> <<>>, y |-> <<>>]

Trace(x, y) == [shown |-> TRUE, x |-> x, y |-> y]

\* A faulty variant of make_chart: the SUM trace is added whenever it is
\* asked for, however many columns there are.
make_chart_sum_any_width(df, crypto_series, has_crypto, want_sum) ==
    [lines |-> [c \in DOMAIN df.cols |->
                    Trace(df.index, [i \in DOMAIN df.index |-> Pct(df.cols[c][i])])],
     sum |-> IF want_sum
             THEN Trace(df.index,
                        [i \in DOMAIN df.index |-> df_sum_axis1(df)[i] * 100])
             ELSE NoTrace,
     crypto |-> IF has_crypto /\ crypto_series # <<>>
                THEN Trace(IndexOf(crypto_series), ValuesOf(crypto_series))
                ELSE NoTrace]

\* A faulty variant of make_chart: the crypto series is reindexed onto the
\* table's index and forward-filled before it is drawn.
make_chart_overlay_on_table(df, crypto_series, has_crypto, want_sum) ==
    [lines |-> [c \in DOMAIN df.cols |->
                    Trace(df.index, [i \in DOMAIN df.index |-> Pct(df.cols[c][i])])],
     sum |-> IF want_sum /\ Cardinality(DOMAIN df.cols) >= 2
             THEN Trace(df.index,
                        [i \in DOMAIN df.index |-> df_sum_axis1(df)[i] * 100])
             ELSE NoTrace,
     crypto |-> IF has_crypto /\ crypto_series # <<>>
                THEN Trace(df.index, ffill(reindex(crypto_series, df.index)))
                ELSE NoTrace]

\* The traces make_chart adds: one per column, SUM, the crypto line.
make_chart(df, crypto_series, has_crypto, want_sum) ==
    [lines |-> [c \in DOMAIN df.cols |->
                    Trace(df.index, [i \in DOMAIN df.index |-> Pct(df.cols[c][i])])],
     sum |-> IF want_sum /\ Cardinality(DOMAIN df.cols) >= 2
             THEN Trace(df.index,
                        [i \in DOMAIN df.index |-> df_sum_axis1(df)[i] * 100])
             ELSE NoTrace,
     crypto |-> IF has_crypto /\ crypto_series # <<>>
                THEN Trace(IndexOf(crypto_series), ValuesOf(crypto_series))
                ELSE NoTrace]

NoFigure == [lines |-> <<>>, sum |-> NoTrace, crypto |-> NoTrace]

\* ------------------------------------------------- the plotter on its own
Names == {"A", "B"}

\* The canonical series over a set of timestamps: strictly increasing.
RECURSIVE CanonicalOver(_)
CanonicalOver(T) ==
    IF T = {} THEN {<<>>}
    ELSE LET m == SetMax(T)
             shorter == CanonicalOver(T \ {m})
         IN  shorter \cup {Append(s, <<m, p>>) : s \in shorter, p \in Prices}

CanonicalSeries == CanonicalOver(0..MaxLabel)

\* The worked example of the alignment engine: A = {(0,0.2),(10,0.5)},
\* B = {(5,0.1),(15,0.9)}.
ExampleAB ==
    [n \in Names |-> IF n = "A" THEN <<<<0, 2>>, <<10, 5>>>>
                     ELSE <<<<5, 1>>, <<15, 9>>>>]

AlignInputs ==
    UNION {[D -> CanonicalSeries] : D \in SUBSET Names} \cup {ExampleAB}

plot_vars == <<series_map, prob_df, fig, show_sum, al_pc>>

fetch_vars == <<fpc, symbol, start_ts, end_ts, since, out, iters, nreq, fresult,
                sent_since, resp>>

app_vars == <<stage, event, crypto, selected, history_cache, crypto_cache,
              fidelity, fetched_with, requested, run>>

vars == <<plot_vars, fetch_vars, app_vars>>


\* prob_df = build_step_aligned_df(series_map)
Align ==
    /\ al_pc = "input"
    /\ prob_df' = build_step_aligned_df(series_map)
    /\ al_pc' = "aligned"
    /\ UNCHANGED <<series_map, fig, show_sum>>
    /\ UNCHANGED <<fetch_vars, app_vars>>

\* fig = make_chart(prob_df, show_sum=...), no crypto series
Chart ==
    /\ al_pc = "aligned"
    /\ prob_df.ok
    /\ fig' = make_chart(prob_df, <<>>, FALSE, show_sum)
    /\ al_pc' = "charted"
    /\ UNCHANGED <<series_map, prob_df, show_sum>>
    /\ UNCHANGED <<fetch_vars, app_vars>>


AlignNext == Align \/ Chart

\* ----------------------------------------------------------- crypto_api.py
\* None: a JSON field that is absent or null.
None == -2

max_iters == 40

\* PAIR_MAP: the symbols the connector knows.
PAIR_MAP == [s \in {"BTC", "ETH", "SOL"} |->
                IF s = "BTC" THEN "XBTUSD" ELSE IF s = "ETH" THEN "ETHUSD" ELSE "SOLUSD"]

\* The symbols a caller may pass, and str.upper() on them.
Symbols == {"btc", "DOGE"}

Upper(s) == IF s = "btc" THEN "BTC" ELSE s

\* The range bounds a caller may pass: they leave room for rows before the
\* range and past it.
CallTimes == {1, 2}

\* An OHLC row, reduced to the fields read: <<row[0], row[4]>>.
Rows == TsRange \X Prices

\* Pages worth having whatever MaxRows is: rows out of order, a row past the
\* range ahead of one inside it, a row before the range, a repeated row, one
\* candle reported with two close prices.
SampleRowLists ==
    {<<<<2, 1>>, <<1, 2>>>>, <<<<3, 1>>, <<1, 1>>>>, <<<<0, 1>>, <<1, 1>>>>,
     <<<<1, 1>>, <<1, 1>>>>, <<<<1, 1>>, <<1, 2>>>>}

RowLists == UNION {[1..n -> Rows] : n \in 0..MaxRows} \cup SampleRowLists

\* What one requests.get can bring.  status 0: no response (requests raised);
\* json FALSE: a body that is not JSON; error: data["error"] is non-empty;
\* ohlc: the first list in data["result"] (<<>> when there is none);
\* last: data["result"]["last"].
Resp(status, json, error, ohlc, last) ==
    [status |-> status, json |-> json, error |-> error, ohlc |-> ohlc, last |-> last]

Unreachable == Resp(0, FALSE, FALSE, <<>>, None)

TooManyRequests == Resp(429, FALSE, FALSE, <<>>, None)

ServerError == Resp(500, FALSE, FALSE, <<>>, None)

NotJson == Resp(200, FALSE, FALSE, <<>>, None)

ProviderError == Resp(200, TRUE, TRUE, <<>>, None)

Page(ohlc, last) == Resp(200, TRUE, FALSE, ohlc, last)

Cursors == {None} \cup (0..(MaxTs + 1))

Responses ==
    {Unreachable, TooManyRequests, ServerError, NotJson, ProviderError}
        \cup {Page(rows, last) : rows \in RowLists, last \in Cursors}

\* A faulty variant of ClipRows: every row of the page is taken.
ClipRowsAll(rows, start, end) == Range(rows)

\* A faulty variant of ArgumentsRejected: the time range is not looked at.
ArgumentsRejectedBySymbol(sym, start, end) == Upper(sym) \notin DOMAIN PAIR_MAP

\* The rows of one page that reach out (crypto_api.py 69-76): rows before
\* start are skipped, the first row past end ends the scan.
RECURSIVE ClipRows(_, _, _)
ClipRows(rows, start, end) ==
    IF rows = <<>> THEN {}
    ELSE LET row == Head(rows)
         IN  IF row[1] < start THEN ClipRows(Tail(rows), start, end)
             ELSE IF row[1] > end THEN {}
             ELSE {row} \cup ClipRows(Tail(rows), start, end)

\* The frame of the loop.  out is kept as the set of the list's elements: the
\* code reads only whether the list is empty, and set(out).
Frame(pc, exc, cursor, points, n) ==
    [pc |-> pc, exc |-> exc, since |-> cursor, out |-> points, iters |-> n]

\* The pass ended with continue or by falling off its end: the for loop
\* takes the next pass if range(max_iters) has one.
NextPass(cursor, points, n) ==
    Frame(IF n + 1 < max_iters THEN "loop" ELSE "after", "none", cursor, points, n + 1)

\* A faulty variant of OnHardFailure: the loop is left as if the pages had
\* run out, and the points gathered so far are returned.
OnHardFailureKeepsPoints(st) == Frame("after", "none", st.since, st.out, st.iters)

\* A non-200 status other than 429, or data["error"] set (crypto_api.py
\* 46-47, 50-51): raise CryptoError.
OnHardFailure(st) == Frame("raised", "CryptoError", st.since, st.out, st.iters)

\* A faulty variant of NoProgress: the cursor is followed wherever it points.
NoProgressIgnored(last, cursor) == FALSE

\* int(last) <= since (crypto_api.py 82): the cursor did not advance.
NoProgress(last, cursor) == last <= cursor

\* A faulty variant of On429: the retry does not use up a pass of the loop.
On429Uncounted(st) == Frame("loop", "none", st.since, st.out, st.iters)

\* status 429 (crypto_api.py 41-44): sleep, then continue with the next pass.
On429(st) == NextPass(st.since, st.out, st.iters)

\* One pass of the for loop (crypto_api.py 37-89) on the response r.
KrakenPass(st, r, start, end) ==
    IF r.status = 0
    THEN Frame("raised", "RequestException", st.since, st.out, st.iters)
    ELSE IF r.status = 429 THEN On429(st)
    ELSE IF r.status # 200 THEN OnHardFailure(st)
    ELSE IF ~r.json
    THEN Frame("raised", "JSONDecodeError", st.since, st.out, st.iters)
    ELSE IF r.error THEN OnHardFailure(st)
    ELSE IF r.ohlc = <<>>
    THEN Frame("after", "none", st.since, st.out, st.iters)
    ELSE LET points == st.out \cup ClipRows(r.ohlc, start, end)
         IN  IF r.last = None \/ r.last = 0
             THEN Frame("after", "none", st.since, points, st.iters)
             ELSE IF NoProgress(r.last, st.since)
             THEN Frame("after", "none", st.since, points, st.iters)
             ELSE IF r.last > end
             THEN Frame("after", "none", r.last, points, st.iters)
             ELSE NextPass(r.last, points, st.iters)

\* The orders sorted(S, key=lambda x: x[0]) can give a set S: ascending by
\* timestamp, points of one timestamp in the set's iteration order.
RECURSIVE SortedByTs(_)
SortedByTs(S) ==
    IF S = {} THEN {<<>>}
    ELSE LET m == SetMin({x[1] : x \in S})
         IN  UNION {{<<x>> \o rest : rest \in SortedByTs(S \ {x})} :
                        x \in {y \in S : y[1] = m}}

NoResult == [kind |-> "none", exc |-> "none", series |-> <<>>]

Raised(exc) == [kind |-> "raised", exc |-> exc, series |-> <<>>]

Returned(series) == [kind |-> "returned", exc |-> "none", series |-> series]

\* What the call can end with once the loop is left (crypto_api.py 91-95).
AfterLoop(points) ==
    IF points = {} THEN {Raised("CryptoError")}
    ELSE {Returned(s) : s \in SortedByTs(points)}

\* What is kept of an answer: its status and flags, whether it carried no
\* rows, its cursor, and whether the scan of its rows left some of them out.
Seen(r, start, end) ==
    [status |-> r.status, json |-> r.json, error |-> r.error,
     empty |-> r.ohlc = <<>>, last |-> r.last,
     dropped |-> Range(r.ohlc) # ClipRows(r.ohlc, start, end)]

NoAnswer == [status |-> None, json |-> FALSE, error |-> FALSE, empty |-> TRUE,
             last |-> None, dropped |-> FALSE]

\* The checks before the loop (crypto_api.py 23-28).
ArgumentsRejected(sym, start, end) ==
    Upper(sym) \notin DOMAIN PAIR_MAP \/ end <= start

\* fetch_crypto_price_range(sym, start, end) is called.
Call ==
    /\ fpc = "idle"
    /\ \E sym \in Symbols, start \in CallTimes, end \in CallTimes :
          /\ symbol' = sym
          /\ start_ts' = start
          /\ end_ts' = end
          /\ since' = start
          /\ IF ArgumentsRejected(sym, start, end)
             THEN fpc' = "raised" /\ fresult' = Raised("CryptoError")
             ELSE fpc' = "loop" /\ fresult' = NoResult
    /\ UNCHANGED <<out, iters, nreq, sent_since, resp>>
    /\ UNCHANGED <<plot_vars, app_vars>>

\* One requests.get and the pass of the loop that handles its answer; the
\* pass that leaves the loop also runs the code behind the loop.
Request ==
    /\ fpc = "loop"
    /\ \E r \in Responses :
          LET st == KrakenPass(Frame("loop", "none", since, out, iters), r,
                               start_ts, end_ts)
          IN  /\ since' = st.since
              /\ out' = st.out
              /\ iters' = st.iters
              /\ nreq' = nreq + 1
              /\ sent_since' = since
              /\ resp' = Seen(r, start_ts, end_ts)
              /\ CASE st.pc = "loop" -> fpc' = "loop" /\ fresult' = NoResult
                   [] st.pc = "raised" -> fpc' = "raised" /\ fresult' = Raised(st.exc)
                   [] st.pc = "after" ->
                        \E res \in AfterLoop(st.out) :
                            fpc' = res.kind /\ fresult' = res
    /\ UNCHANGED <<symbol, start_ts, end_ts>>
    /\ UNCHANGED <<plot_vars, app_vars>>

FetchNext == Call \/ Request

\* ------------------------------------------------------- polymarket_api.py
\* What the one requests.get of _get_json can bring.  status 0: no response
\* (requests raised); json FALSE: a body that is not JSON; history:
\* data["history"], a list of <<t, p>> where either may be None.
PMResp(status, json, history) ==
    [status |-> status, json |-> json, history |-> history]

\* Sample history payloads: sorted; out of order with a null point; one
\* point; one timestamp twice.
Histories ==
    {<<<<0, 1>>, <<2, 2>>>>,
     <<<<2, 2>>, <<None, 1>>, <<1, 1>>>>,
     <<<<1, 2>>>>,
     <<<<1, 1>>, <<1, 2>>>>}

PMResponses ==
    {PMResp(0, FALSE, <<>>), PMResp(404, FALSE, <<>>), PMResp(200, TRUE, <<>>)}
        \cup {PMResp(200, TRUE, h) : h \in Histories}

\* _get_json (polymarket_api.py 34-38): "ok", or the exception it raises.
get_json(r) ==
    IF r.status = 0 THEN "RequestException"
    ELSE IF r.status >= 400 THEN "PolymarketError"
    ELSE IF ~r.json THEN "JSONDecodeError"
    ELSE "ok"

HasBoth(pt) == pt[1] # None /\ pt[2] # None

\* fetch_token_price_history (polymarket_api.py 88-109) on the response r.
fetch_token_price_history(r) ==
    IF get_json(r) # "ok" THEN Raised(get_json(r))
    ELSE LET points == SelectSeq(r.history, HasBoth)
         IN  IF points = <<>> THEN Raised("PolymarketError")
             ELSE Returned(points)

\* ------------------------- fetch_crypto_price_range as one call (for app2)
\* The answers of the upstream to one call: prefix[i] to the i-th request,
\* tail to every request after those.
Script(prefix, tail) == [prefix |-> prefix, tail |-> tail]

AnswerAt(script, i) ==
    IF i <= Len(script.prefix) THEN script.prefix[i] ELSE script.tail

\* Sample upstreams: unreachable; always 429; HTTP 500; a provider error; no
\* rows; a 429, then two pages.
KrakenScripts ==
    {Script(<<>>, Unreachable), Script(<<>>, TooManyRequests),
     Script(<<>>, ServerError), Script(<<>>, ProviderError),
     Script(<<>>, Page(<<>>, None)),
     Script(<<TooManyRequests, Page(<<<<0, 1>>, <<1, 1>>>>, 2)>>,
            Page(<<<<2, 2>>, <<3, 2>>>>, None))}

RECURSIVE KrakenLoop(_, _, _, _)
KrakenLoop(st, script, start, end) ==
    IF st.pc # "loop" THEN st
    ELSE KrakenLoop(KrakenPass(st, AnswerAt(script, st.iters + 1), start, end),
                    script, start, end)

\* The results fetch_crypto_price_range(sym, start, end) can give when the
\* upstream answers by script.
fetch_crypto_price_range(sym, start, end, script) ==
    IF ArgumentsRejected(sym, start, end) THEN {Raised("CryptoError")}
    ELSE LET st == KrakenLoop(Frame("loop", "none", start, {}, 0), script, start, end)
         IN  IF st.pc = "raised" THEN {Raised(st.exc)} ELSE AfterLoop(st.out)

\* ----------------------------------------------------------------- app2.py
NsPerSec == 1000000000

\* pd.to_datetime(t, unit="s", utc=True), as nanoseconds since the epoch.
to_datetime(t) == t * NsPerSec

\* int(Timestamp.timestamp())
timestamp(d) == d \div NsPerSec

\* pd.Series(vals, index=pd.to_datetime(ts)).sort_index() (app2.py 201-203).
ToSeries(points) ==
    sort_index(PdSeries([i \in DOMAIN points |-> points[i][2]],
                        [i \in DOMAIN points |-> to_datetime(points[i][1])]))

Events == {"e1", "e2"}

NoEvent == "none"

\* The outcomes of the event's market; an outcome is its own selection key.
Outcomes == {"Yes", "No"}

\* m["token_ids"]: the token of an outcome of an event.
TokenId(ev, o) == <<ev, o>>

nice_label(o) == o

CryptoChoices == {"Don't show crypto price", "Bitcoin (BTC)"}

NoSymbol == "None"

crypto_symbol(choice) ==
    IF choice = "Don't show crypto price" THEN NoSymbol ELSE "BTC"

DefaultFidelity == 10

Fidelities == {DefaultFidelity, 5}

\* A faulty variant of InCache: every request is taken for a miss.
NeverInCache(cache, key) == FALSE

\* key in cache (app2.py 199, 218)
InCache(cache, key) == key \in DOMAIN cache

\* A faulty variant of StoreResult: a failed fetch leaves an empty series.
StoreAnyResult(cache, key, res, series) == (key :> series) @@ cache

\* cache[key] = series, reached only when the fetch returned (app2.py 200-203,
\* 221-225).
StoreResult(cache, key, res, series) ==
    IF res.kind = "returned" THEN (key :> series) @@ cache ELSE cache

\* A faulty variant of ResetCache: the entries are kept.
KeepCache(cache) == cache

\* st.session_state.history_cache = {} / crypto_cache = {} (app2.py 106-107)
ResetCache(cache) == <<>>

SeqWithout(q, x) == SelectSeq(q, LAMBDA y : y # x)

PmCall(token, fid, res) == [token |-> token, fidelity |-> fid, ok |-> res.kind = "returned"]

\* A faulty variant of HistoryLoop: a fetch that raises is noted, and the loop
\* goes on with the next selected outcome.
RECURSIVE HistoryLoopKeepsGoing(_, _, _, _, _)
HistoryLoopKeepsGoing(items, h, ev, fid, env) ==
    IF items = <<>> THEN h
    ELSE LET token == TokenId(ev, Head(items))
             label == nice_label(Head(items))
             hit == InCache(h.hc, token)
             res == IF hit THEN NoResult ELSE fetch_token_price_history(env[token])
             hc2 == IF hit THEN h.hc
                    ELSE StoreResult(h.hc, token, res, ToSeries(res.series))
             calls2 == IF hit THEN h.calls ELSE Append(h.calls, PmCall(token, fid, res))
             fw2 == IF ~hit /\ res.kind = "returned" THEN (token :> fid) @@ h.fw ELSE h.fw
         IN  IF ~hit /\ res.kind = "raised"
             THEN HistoryLoopKeepsGoing(Tail(items),
                                        [h EXCEPT !.hc = hc2, !.calls = calls2,
                                                  !.exc = res.exc],
                                        ev, fid, env)
             ELSE HistoryLoopKeepsGoing(Tail(items),
                                        [h EXCEPT !.hc = hc2, !.calls = calls2,
                                                  !.fw = fw2,
                                                  !.smap = (label :> hc2[token]) @@ @],
                                        ev, fid, env)

\* The loop over the selected outcomes (app2.py 195-205).  h: the cache, the
\* series_map, the calls made, the exception that ended the loop.
RECURSIVE HistoryLoop(_, _, _, _, _)
HistoryLoop(items, h, ev, fid, env) ==
    IF items = <<>> \/ h.exc # "none" THEN h
    ELSE LET token == TokenId(ev, Head(items))
             label == nice_label(Head(items))
             hit == InCache(h.hc, token)
             res == IF hit THEN NoResult ELSE fetch_token_price_history(env[token])
             hc2 == IF hit THEN h.hc
                    ELSE StoreResult(h.hc, token, res, ToSeries(res.series))
             calls2 == IF hit THEN h.calls ELSE Append(h.calls, PmCall(token, fid, res))
             fw2 == IF ~hit /\ res.kind = "returned" THEN (token :> fid) @@ h.fw ELSE h.fw
         IN  IF ~hit /\ res.kind = "raised"
             THEN [h EXCEPT !.hc = hc2, !.calls = calls2, !.exc = res.exc]
             ELSE HistoryLoop(Tail(items),
                              [h EXCEPT !.hc = hc2, !.calls = calls2, !.fw = fw2,
                                        !.smap = (label :> hc2[token]) @@ @],
                              ev, fid, env)

NoCall == [made |-> FALSE, key |-> <<>>, kind |-> "none", exc |-> "none"]

CryptoCall(key, res) == [made |-> TRUE, key |-> key, kind |-> res.kind, exc |-> res.exc]

\* <<start_ts, end_ts>> of the overlay (app2.py 213-214).
OverlayRange(df) ==
    <<timestamp(SetMin(Range(df.index))), timestamp(SetMax(Range(df.index)))>>

CacheKey(sym, df) == <<sym, OverlayRange(df)[1], OverlayRange(df)[2]>>

\* The overlay block (app2.py 210-233) once the upstream's answer res to a
\* fetch is known: the cache, crypto_series (has: it is not None), the call,
\* the exception that escapes the block.
OverlayBlock(choice, df, cc, res) ==
    LET sym == crypto_symbol(choice)
        key == CacheKey(sym, df)
    IN  IF sym = NoSymbol
        THEN [cc |-> cc, has |-> FALSE, series |-> <<>>, call |-> NoCall, exc |-> "none"]
        ELSE IF InCache(cc, key)
        THEN [cc |-> cc, has |-> TRUE, series |-> cc[key], call |-> NoCall, exc |-> "none"]
        ELSE LET series == ToSeries(res.series)
             IN  [cc |-> StoreResult(cc, key, res, series),
                  has |-> res.kind = "returned",
                  series |-> IF res.kind = "returned" THEN series ELSE <<>>,
                  call |-> CryptoCall(key, res),
                  exc |-> IF res.kind = "raised" /\ res.exc # "CryptoError"
                          THEN res.exc ELSE "none"]

\* The results of the fetch the overlay block makes, if it makes one, over
\* the sample upstreams.
OverlayResults(choice, df, cc) ==
    LET sym == crypto_symbol(choice)
        key == CacheKey(sym, df)
    IN  IF sym = NoSymbol \/ InCache(cc, key) THEN {NoResult}
        ELSE UNION {fetch_crypto_price_range(key[1], key[2], key[3], script) :
                        script \in KrakenScripts}

\* What a script run leaves on the page.
RunRecord(kind, exc, calls, call, discarded) ==
    [kind |-> kind, exc |-> exc, pm_calls |-> calls, kr_call |-> call,
     discarded |-> discarded]

NoRun == RunRecord("none", "none", <<>>, NoCall, 0)

chart_vars == <<series_map, prob_df, fig>>

\* The state the loop over the selected outcomes starts from.
LoopStart == [hc |-> history_cache, fw |-> fetched_with, smap |-> <<>>,
              calls |-> <<>>, exc |-> "none"]

\* The keys the connectors were called for in a run.
KeysCalled(calls, call) ==
    {c.token : c \in Range(calls)} \cup (IF call.made THEN {call.key} ELSE {})

\* The right column of the chart screen (app2.py 182-241) with sel selected.
ChartColumn(sel, fid, want_sum) ==
    IF sel = <<>>
    THEN /\ run' = RunRecord("no_selection", "none", <<>>, NoCall, 0)
         /\ series_map' = <<>>
         /\ prob_df' = EmptyDataFrame
         /\ fig' = NoFigure
         /\ UNCHANGED <<history_cache, crypto_cache, fetched_with, requested>>
    ELSE \E env \in [{t \in {TokenId(event, o) : o \in Range(sel)} :
                            ~InCache(history_cache, t)} -> PMResponses] :
         \E h \in {HistoryLoop(sel, LoopStart, event, fid, env)} :
         \E df \in {IF h.exc = "none" THEN build_step_aligned_df(h.smap)
                    ELSE EmptyDataFrame} :
             /\ history_cache' = h.hc
             /\ fetched_with' = h.fw
             /\ series_map' = h.smap
             /\ prob_df' = df
             /\ IF h.exc # "none" \/ ~df.ok
                THEN /\ run' = RunRecord("aborted",
                                         IF h.exc # "none" THEN h.exc ELSE "ValueError",
                                         h.calls, NoCall, 0)
                     /\ fig' = NoFigure
                     /\ requested' = requested \cup KeysCalled(h.calls, NoCall)
                     /\ UNCHANGED crypto_cache
                ELSE \E res \in OverlayResults(crypto, df, crypto_cache) :
                     \E o \in {OverlayBlock(crypto, df, crypto_cache, res)} :
                        /\ crypto_cache' = o.cc
                        /\ requested' = requested \cup KeysCalled(h.calls, o.call)
                        /\ IF o.exc # "none"
                           THEN /\ run' = RunRecord("aborted", o.exc, h.calls, o.call, 0)
                                /\ fig' = NoFigure
                           ELSE /\ run' = RunRecord("rendered", "none", h.calls, o.call, 0)
                                /\ fig' = make_chart(df, o.series, o.has, want_sum)

\* "Visualize Event" on the URL screen (app2.py 93-112), then the rerun that
\* shows the chart screen with nothing selected.
VisualizeEvent ==
    /\ stage = 1
    /\ \E ev \in Events, choice \in CryptoChoices,
          loaded \in {"ok", "PolymarketError", "RequestException"} :
          IF loaded = "ok"
          THEN /\ event' = ev
               /\ crypto' = choice
               /\ selected' = <<>>
               /\ history_cache' = ResetCache(history_cache)
               /\ crypto_cache' = ResetCache(crypto_cache)
               /\ stage' = 2
               /\ fidelity' = DefaultFidelity
               /\ show_sum' = TRUE
               /\ fetched_with' = <<>>
               /\ requested' = {}
               /\ run' = RunRecord("no_selection", "none", <<>>, NoCall,
                                   Cardinality(DOMAIN history_cache)
                                       + Cardinality(DOMAIN crypto_cache))
               /\ series_map' = <<>>
               /\ prob_df' = EmptyDataFrame
               /\ fig' = NoFigure
          ELSE /\ run' = RunRecord(IF loaded = "PolymarketError" THEN "error_shown"
                                   ELSE "aborted", loaded, <<>>, NoCall, 0)
               /\ UNCHANGED <<stage, event, crypto, selected, history_cache,
                              crypto_cache, fidelity, fetched_with, requested,
                              show_sum, chart_vars>>
    /\ UNCHANGED <<al_pc, fetch_vars>>

\* "<- New event" (app2.py 125-127), then the rerun that shows the URL screen:
\* nothing is charted, and the slider and the toggle, not drawn on that
\* screen, are back at their defaults when drawn again.
NewEvent ==
    /\ stage = 2
    /\ stage' = 1
    /\ run' = NoRun
    /\ series_map' = <<>>
    /\ prob_df' = EmptyDataFrame
    /\ fig' = NoFigure
    /\ fidelity' = DefaultFidelity
    /\ show_sum' = TRUE
    /\ UNCHANGED <<event, crypto, selected, history_cache, crypto_cache,
                   fetched_with, requested, al_pc, fetch_vars>>

\* An outcome's checkbox is ticked or unticked (app2.py 166-179), and the
\* chart column of the same run.
ToggleOutcome ==
    /\ stage = 2
    /\ \E o \in Outcomes :
          LET sel == IF o \in Range(selected) THEN SeqWithout(selected, o)
                     ELSE Append(selected, o)
          IN  /\ selected' = sel
              /\ ChartColumn(sel, fidelity, show_sum)
    /\ UNCHANGED <<stage, event, crypto, fidelity, show_sum, al_pc, fetch_vars>>

\* "Clear selection" (app2.py 141-147), then the rerun.
ClearSelection ==
    /\ stage = 2
    /\ selected # <<>>
    /\ selected' = <<>>
    /\ ChartColumn(<<>>, fidelity, show_sum)
    /\ UNCHANGED <<stage, event, crypto, fidelity, show_sum, al_pc, fetch_vars>>

\* The fidelity slider is moved (app2.py 136), and the run it triggers.
ChangeFidelity ==
    /\ stage = 2
    /\ \E f \in Fidelities \ {fidelity} :
          /\ fidelity' = f
          /\ ChartColumn(selected, f, show_sum)
    /\ UNCHANGED <<stage, event, crypto, selected, show_sum, al_pc, fetch_vars>>

\* "Show Sum" is switched (app2.py 135), and the run it triggers.
ToggleShowSum ==
    /\ stage = 2
    /\ show_sum' = ~show_sum
    /\ ChartColumn(selected, fidelity, ~show_sum)
    /\ UNCHANGED <<stage, event, crypto, selected, fidelity, al_pc, fetch_vars>>

\* Any other interaction with the chart screen (the search box): a rerun.
Rerun ==
    /\ stage = 2
    /\ ChartColumn(selected, fidelity, show_sum)
    /\ UNCHANGED <<stage, event, crypto, selected, fidelity, show_sum, al_pc,
                   fetch_vars>>

Next ==
    \/ VisualizeEvent
    \/ NewEvent
    \/ ToggleOutcome
    \/ ClearSelection
    \/ ChangeFidelity
    \/ ToggleShowSum
    \/ Rerun

\* A fresh session (app2.py 35-50).
Init ==
    /\ stage = 1
    /\ event = NoEvent
    /\ crypto = "Don't show crypto price"
    /\ selected = <<>>
    /\ history_cache = <<>>
    /\ crypto_cache = <<>>
    /\ fidelity = DefaultFidelity
    /\ fetched_with = <<>>
    /\ requested = {}
    /\ run = NoRun
    /\ series_map = <<>>
    /\ prob_df = EmptyDataFrame
    /\ fig = NoFigure
    /\ show_sum = TRUE
    /\ al_pc = "idle"
    /\ fpc = "idle"
    /\ symbol = "BTC"
    /\ start_ts = 0
    /\ end_ts = 0
    /\ since = 0
    /\ out = {}
    /\ iters = 0
    /\ nreq = 0
    /\ fresult = NoResult
    /\ sent_since = None
    /\ resp = NoAnswer

Spec == Init /\ [][Next]_vars

AlignInit ==
    /\ series_map \in AlignInputs
    /\ prob_df = EmptyDataFrame
    /\ fig = NoFigure
    /\ show_sum \in BOOLEAN
    /\ al_pc = "input"
    /\ fpc = "idle"
    /\ symbol = "BTC"
    /\ start_ts = 0
    /\ end_ts = 0
    /\ since = 0
    /\ out = {}
    /\ iters = 0
    /\ nreq = 0
    /\ fresult = NoResult
    /\ sent_since = None
    /\ resp = NoAnswer
    /\ stage = 1
    /\ event = NoEvent
    /\ crypto = "Don't show crypto price"
    /\ selected = <<>>
    /\ history_cache = <<>>
    /\ crypto_cache = <<>>
    /\ fidelity = DefaultFidelity
    /\ fetched_with = <<>>
    /\ requested = {}
    /\ run = NoRun

SpecAlign == AlignInit /\ [][AlignNext]_vars

FetchInit ==
    /\ series_map = <<>>
    /\ prob_df = EmptyDataFrame
    /\ fig = NoFigure
    /\ show_sum = TRUE
    /\ al_pc = "idle"
    /\ fpc = "idle"
    /\ symbol = "BTC"
    /\ start_ts = 0
    /\ end_ts = 0
    /\ since = 0
    /\ out = {}
    /\ iters = 0
    /\ nreq = 0
    /\ fresult = NoResult
    /\ sent_since = None
    /\ resp = NoAnswer
    /\ stage = 1
    /\ event = NoEvent
    /\ crypto = "Don't show crypto price"
    /\ selected = <<>>
    /\ history_cache = <<>>
    /\ crypto_cache = <<>>
    /\ fidelity = DefaultFidelity
    /\ fetched_with = <<>>
    /\ requested = {}
    /\ run = NoRun

SpecFetch == FetchInit /\ [][FetchNext]_vars

\* ==================================================================
\* Properties of the plotter (SpecAlign)
\* ==================================================================
IsCanonical(s) == \A i, j \in DOMAIN s : i < j => s[i][1] < s[j][1]

StrictlyIncreasing(idx) == \A i, j \in DOMAIN idx : i < j => idx[i] < idx[j]

\* The value of s's latest point with timestamp <= t, NaN when there is none.
LatestAtOrBefore(s, t) ==
    LET P == {j \in DOMAIN s : s[j][1] <= t}
    IN  IF P = {} THEN NaN
        ELSE s[CHOOSE j \in P : \A k \in P : s[k][1] <= s[j][1]][2]

Aligned == al_pc \in {"aligned", "charted"}

\* C4: for every mapping of names to canonical series the aligned table's
\* row index is the strictly increasing union of the input timestamps, the
\* cell (t, c) is the value of c's latest point at or before t and absent
\* before c's first point; the empty mapping gives no rows and no columns;
\* the worked example gives rows 0,5,10,15, A = 0.2,0.2,0.5,0.5 and
\* B = absent,0.1,0.1,0.9.
C4_StepAlignedTable ==
    (Aligned /\ \A n \in DOMAIN series_map : IsCanonical(series_map[n])) =>
        /\ prob_df.ok
        /\ StrictlyIncreasing(prob_df.index)
        /\ Range(prob_df.index) =
              UNION {Range(IndexOf(series_map[n])) : n \in DOMAIN series_map}
        /\ DOMAIN prob_df.cols = DOMAIN series_map
        /\ \A n \in DOMAIN series_map : \A i \in DOMAIN prob_df.index :
              prob_df.cols[n][i] = LatestAtOrBefore(series_map[n], prob_df.index[i])
        /\ (DOMAIN series_map = {} =>
              prob_df.index = <<>> /\ DOMAIN prob_df.cols = {})
        /\ (series_map = ExampleAB =>
              /\ prob_df.index = <<0, 5, 10, 15>>
              /\ prob_df.cols["A"] = <<2, 2, 5, 5>>
              /\ prob_df.cols["B"] = <<NaN, 1, 1, 9>>)

\* C4 witness: the worked example has been aligned, B absent in its first row.
C4_Witness ==
    /\ al_pc = "aligned"
    /\ series_map = ExampleAB
    /\ prob_df.cols["B"][1] = NaN
    /\ prob_df.cols["A"][2] = 2

RECURSIVE SumOf(_, _, _)
SumOf(cols, names, i) ==
    IF names = {} THEN 0
    ELSE LET n == CHOOSE x \in names : TRUE
         IN  cols[n][i] + SumOf(cols, names \ {n}, i)

\* C2: with the SUM requested and at least two columns, the SUM at a row is
\* the sum of all columns where every column is defined, and is undefined
\* at every row where some column is still absent.
C2_SumUndefinedWhereAbsent ==
    (al_pc = "charted" /\ show_sum /\ Cardinality(DOMAIN prob_df.cols) >= 2) =>
        /\ fig.sum.shown
        /\ \A i \in DOMAIN prob_df.index :
              IF \A n \in DOMAIN prob_df.cols : prob_df.cols[n][i] # NaN
              THEN fig.sum.y[i] = Pct(SumOf(prob_df.cols, DOMAIN prob_df.cols, i))
              ELSE fig.sum.y[i] = NaN

\* C13: a table with a single column never gets a SUM trace, whatever the
\* flag; the SUM trace is there exactly when the flag is set and the table
\* has at least two columns.
C13_SumOnlyForTwoColumns ==
    al_pc = "charted" =>
        /\ Cardinality(DOMAIN prob_df.cols) = 1 => ~fig.sum.shown
        /\ fig.sum.shown <=> (show_sum /\ Cardinality(DOMAIN prob_df.cols) >= 2)

\* C13 witness: a one-column table was charted with the flag set, and no
\* SUM trace was added.
C13_Witness ==
    /\ al_pc = "charted"
    /\ show_sum
    /\ Cardinality(DOMAIN prob_df.cols) = 1
    /\ prob_df.index # <<>>
    /\ ~fig.sum.shown

\* ==================================================================
\* Properties of fetch_crypto_price_range (SpecFetch)
\* ==================================================================
\* C3: the returned list has strictly increasing timestamps, whatever the
\* pages were.
C3_ReturnedStrictlyIncreasing ==
    fpc = "returned" => IsCanonical(fresult.series)

\* C5: one call issues at most max_iters (40) HTTP requests: while the loop
\* runs fewer than 40 were sent and every pass sends exactly one, and the
\* call ends by returning a series or raising.
C5_AtMostFortyRequests ==
    /\ nreq <= max_iters
    /\ fpc = "loop" => (nreq = iters /\ nreq < max_iters /\ fresult = NoResult)
    /\ fpc = "returned" => (fresult.kind = "returned" /\ fresult.series # <<>>)
    /\ fpc = "raised" => (fresult.kind = "raised" /\ fresult.exc # "none")

\* C5 witness: the call ended after its 40th request.
C5_Witness == fpc = "raised" /\ nreq = max_iters

\* C9: every failed fetch surfaces as the connector's own error type.
C9_OnlyConnectorError ==
    fpc = "raised" => fresult.exc = "CryptoError"

\* C11: a 429 answer is retried with the same cursor, and when the passes of
\* the loop run out on a 429 answer the call raises: it returns no series,
\* also when earlier pages had delivered points.
C11_ExhaustedOn429Raises ==
    resp.status = 429 =>
        /\ since = sent_since
        /\ fpc # "loop" => (fpc = "raised" /\ fresult.kind = "raised")

\* C14: every point of the returned list lies in [start_ts, end_ts],
\* whatever the pages were.
C14_ReturnedWithinRange ==
    fpc = "returned" =>
        \A i \in DOMAIN fresult.series :
            start_ts <= fresult.series[i][1] /\ fresult.series[i][1] <= end_ts

\* C14 witness: a series was returned although the last page carried rows
\* outside the range.
C14_Witness == fpc = "returned" /\ resp.dropped /\ fresult.series # <<>>

\* A successful page after which the loop must stop: no rows, no cursor, a
\* cursor that does not advance, or a cursor beyond end_ts.
StopPage(a, cursor) ==
    /\ a.status = 200 /\ a.json /\ ~a.error
    /\ \/ a.empty
       \/ a.last = None
       \/ a.last <= cursor
       \/ a.last > end_ts

\* C15: no request follows a successful page that is empty, has no cursor,
\* has a cursor that does not advance or has one beyond end_ts; so the
\* cursor sent never decreases from one request to the next, and is
\* strictly larger after a page than the one sent before that page.
C15_CursorAdvancesOrStops ==
    [][(nreq' = nreq + 1 /\ nreq >= 1) =>
          /\ ~StopPage(resp, sent_since)
          /\ sent_since' >= sent_since
          /\ resp.status = 200 => sent_since' > sent_since
          /\ resp.status = 429 => sent_since' = sent_since
    ]_vars

\* C15 witness: a request went out with a cursor a page had advanced, and
\* the call ended on a page whose cursor did not advance.
C15_Witness ==
    /\ nreq >= 2
    /\ sent_since > start_ts
    /\ resp.status = 200 /\ ~resp.empty /\ resp.last # None /\ resp.last <= sent_since
    /\ fpc = "returned"

\* C18: a symbol that is not in PAIR_MAP, or end_ts <= start_ts (start_ts =
\* end_ts included), makes the call raise CryptoError with no request sent.
C18_BadArgumentsRaiseBeforeRequest ==
    (fpc # "idle" /\ (Upper(symbol) \notin {"BTC", "ETH", "SOL"} \/ end_ts <= start_ts)) =>
        /\ fpc = "raised"
        /\ fresult = Raised("CryptoError")
        /\ nreq = 0

\* C18 witness: a call for a known symbol with start_ts = end_ts has raised.
C18_Witness ==
    /\ fpc = "raised"
    /\ Upper(symbol) = "BTC"
    /\ start_ts = end_ts
    /\ nreq = 0

\* An answer that is a hard failure: a status other than 200 and 429, or a
\* provider-reported error.
HardFailure(a) ==
    \/ a.status \notin {None, 0, 200, 429}
    \/ a.status = 200 /\ a.json /\ a.error

\* C19: when a page answers with a status other than 200 and 429, or with a
\* provider error, the call raises and returns none of the points gathered
\* from the pages before.
C19_HardFailureReturnsNothing ==
    HardFailure(resp) =>
        /\ fpc = "raised"
        /\ fresult.kind = "raised"
        /\ fresult.series = <<>>

\* C19 witness: the call raised on a hard failure with points in hand.
C19_Witness == HardFailure(resp) /\ out # {} /\ fpc = "raised"

\* ==================================================================
\* Properties of the script runs (Spec)
\* ==================================================================
\* A step that runs the chart screen's script (not a load, not "New event").
ChartRunStep == stage = 2 /\ stage' = 2

SelectedTokens(sel) == {TokenId(event, o) : o \in Range(sel)}

CalledTokens(r) == {c.token : c \in Range(r.pm_calls)}

\* Every entry of the cache is still there, with the same series.
EntriesKept(cache, cache2) ==
    \A k \in DOMAIN cache : k \in DOMAIN cache2 /\ cache2[k] = cache[k]

\* C1 (as amended): within a session, a token or crypto key that is in its
\* cache is served from it with no connector call; a key that is missing is
\* fetched with exactly one connector call in the run, and the result is
\* stored when the call succeeds; so once a call for a key has succeeded no
\* further call is made for it.
C1_CacheHitMakesNoCall ==
    [][ChartRunStep =>
        /\ \A i \in DOMAIN run'.pm_calls :
              /\ run'.pm_calls[i].token \notin DOMAIN history_cache
              /\ \A j \in DOMAIN run'.pm_calls :
                    j # i => run'.pm_calls[j].token # run'.pm_calls[i].token
              /\ run'.pm_calls[i].ok =>
                    run'.pm_calls[i].token \in DOMAIN history_cache'
        /\ EntriesKept(history_cache, history_cache')
        /\ EntriesKept(crypto_cache, crypto_cache')
        /\ run'.kind = "rendered" =>
              /\ CalledTokens(run') = SelectedTokens(selected') \ DOMAIN history_cache
              /\ \A o \in Range(selected') :
                    series_map'[nice_label(o)] = history_cache'[TokenId(event, o)]
              /\ crypto_symbol(crypto) # NoSymbol =>
                    LET key == CacheKey(crypto_symbol(crypto), prob_df')
                    IN  IF key \in DOMAIN crypto_cache
                        THEN /\ ~run'.kr_call.made
                             /\ fig'.crypto.x = IndexOf(crypto_cache[key])
                             /\ fig'.crypto.y = ValuesOf(crypto_cache[key])
                        ELSE /\ run'.kr_call.made /\ run'.kr_call.key = key
                             /\ run'.kr_call.kind = "returned" =>
                                   /\ key \in DOMAIN crypto_cache'
                                   /\ fig'.crypto.x = IndexOf(crypto_cache'[key])
        /\ run'.kr_call.made => run'.kr_call.key \notin DOMAIN crypto_cache
    ]_vars

\* C1 witness: a chart with two lines and the overlay was drawn from the
\* caches alone, no connector called.
C1_Witness ==
    /\ run.kind = "rendered"
    /\ Len(selected) = 2
    /\ run.pm_calls = <<>>
    /\ ~run.kr_call.made
    /\ fig.crypto.shown

\* C1 (as stated): a key is never requested from its connector twice while
\* the caches are not reset.
C1_AtMostOneCallPerKey ==
    [][ChartRunStep =>
        /\ \A c \in Range(run'.pm_calls) : c.token \notin requested
        /\ run'.kr_call.made => run'.kr_call.key \notin requested
    ]_vars

\* C6: the series charted for a selected token was fetched with the
\* fidelity requested now.
C6_SeriesHasRequestedFidelity ==
    run.kind = "rendered" =>
        \A o \in Range(selected) : fetched_with[TokenId(event, o)] = fidelity

\* C7 (as amended): both caches are emptied wholesale when Visualize Event
\* loads an event; checking or unchecking an outcome or clearing the
\* selection empties neither: every entry stays.
C7_CachesResetOnEventLoad ==
    [][/\ (stage = 1 /\ stage' = 2) =>
              history_cache' = <<>> /\ crypto_cache' = <<>>
       /\ (ChartRunStep /\ selected' # selected) =>
              /\ EntriesKept(history_cache, history_cache')
              /\ EntriesKept(crypto_cache, crypto_cache')
    ]_vars

\* C7 witness: an event has just been loaded, and the load discarded entries.
C7_Witness ==
    /\ stage = 2
    /\ run.discarded > 0
    /\ history_cache = <<>>
    /\ crypto_cache = <<>>

\* C7 (as stated): after a change of the selection or of the event, no cache
\* entry created before the change remains.
C7_CachesResetOnAnyChange ==
    [][(selected' # selected \/ event' # event) =>
          /\ DOMAIN history_cache' \subseteq CalledTokens(run')
          /\ DOMAIN crypto_cache' \subseteq
                (IF run'.kr_call.made THEN {run'.kr_call.key} ELSE {})
    ]_vars

\* C8: a connector call that fails leaves no entry under its key, and
\* leaves every other entry as it was.
C8_FailedFetchLeavesCaches ==
    [][ChartRunStep =>
        /\ \A c \in Range(run'.pm_calls) :
              ~c.ok => /\ c.token \notin DOMAIN history_cache'
                       /\ EntriesKept(history_cache, history_cache')
                       /\ DOMAIN history_cache' \subseteq
                             DOMAIN history_cache
                                \cup {d.token : d \in {e \in Range(run'.pm_calls) : e.ok}}
                       /\ crypto_cache' = crypto_cache
        /\ (run'.kr_call.made /\ run'.kr_call.kind = "raised") =>
              /\ run'.kr_call.key \notin DOMAIN crypto_cache'
              /\ crypto_cache' = crypto_cache
    ]_vars

\* C8 witness: the second fetch of a run failed after the first succeeded;
\* the first is cached, the second is not.
C8_Witness ==
    /\ run.kind = "aborted"
    /\ Len(run.pm_calls) = 2
    /\ run.pm_calls[1].ok
    /\ ~run.pm_calls[2].ok
    /\ run.pm_calls[1].token \in DOMAIN history_cache
    /\ run.pm_calls[2].token \notin DOMAIN history_cache

\* C10: when the overlay fetch fails, the run still draws the chart, from the
\* aligned table, without the overlay.
C10_OverlayFailureStillRenders ==
    (run.kr_call.made /\ run.kr_call.kind = "raised") =>
        /\ run.kind = "rendered"
        /\ ~fig.crypto.shown
        /\ DOMAIN fig.lines = DOMAIN prob_df.cols

\* C12: every series in history_cache, and every series handed to
\* build_step_aligned_df, has strictly increasing timestamps, one point per
\* timestamp, whatever the history payload was.
C12_CachedHistoryStrictlyIncreasing ==
    /\ \A t \in DOMAIN history_cache : IsCanonical(history_cache[t])
    /\ \A n \in DOMAIN series_map : IsCanonical(series_map[n])

\* C16: a chart is drawn only when every selected outcome has a series; a
\* fetch that fails for a selected token ends the run there: no table is
\* built, no overlay fetch is made, no chart is drawn, and the series fetched
\* before it in the run are in the cache.
C16_FailedHistoryFetchAborts ==
    /\ run.kind = "rendered" =>
          \A o \in Range(selected) :
              /\ TokenId(event, o) \in DOMAIN history_cache
              /\ history_cache[TokenId(event, o)] # <<>>
              /\ nice_label(o) \in DOMAIN series_map
              /\ series_map[nice_label(o)] = history_cache[TokenId(event, o)]
    /\ \A i \in DOMAIN run.pm_calls :
          ~run.pm_calls[i].ok =>
              /\ i = Len(run.pm_calls)
              /\ run.kind = "aborted"
              /\ prob_df = EmptyDataFrame
              /\ ~run.kr_call.made
              /\ fig = NoFigure
              /\ run.pm_calls[i].token \notin DOMAIN history_cache
              /\ \A j \in 1..(i - 1) :
                    run.pm_calls[j].token \in DOMAIN history_cache

\* C16 witness: with an overlay chosen, the second fetch of a run failed with
\* the connector's error after the first succeeded; nothing was drawn and
\* the first series is cached.
C16_Witness ==
    /\ crypto_symbol(crypto) # NoSymbol
    /\ run.kind = "aborted"
    /\ run.exc = "PolymarketError"
    /\ Len(run.pm_calls) = 2
    /\ ~run.pm_calls[2].ok
    /\ run.pm_calls[1].token \in DOMAIN history_cache
    /\ fig = NoFigure

\* The series the connector can return for a crypto cache key turned into
\* the app's Series: the timestamps as returned, none added.
ConnectorSeries(key) ==
    {[i \in DOMAIN res.series |->
         <<to_datetime(res.series[i][1]), res.series[i][2]>>] :
       res \in {x \in UNION {fetch_crypto_price_range(key[1], key[2], key[3], script) :
                               script \in KrakenScripts} : x.kind = "returned"}}

\* C17: the aligned table of a run is built from the selected outcomes'
\* series alone, its rows are their timestamps, whether or not a crypto
\* symbol is chosen and whatever the overlay fetch gave; the overlay trace
\* has exactly the timestamps the connector returned.
C17_OverlayKeepsOwnTimestamps ==
    run.kind = "rendered" =>
        /\ series_map = [n \in {nice_label(o) : o \in Range(selected)} |->
                            history_cache[TokenId(event,
                                CHOOSE o \in Range(selected) : nice_label(o) = n)]]
        /\ prob_df = build_step_aligned_df(series_map)
        /\ Range(prob_df.index) =
              UNION {Range(IndexOf(series_map[n])) : n \in DOMAIN series_map}
        /\ \A c \in DOMAIN fig.lines : fig.lines[c].x = prob_df.index
        /\ crypto_symbol(crypto) = NoSymbol => ~fig.crypto.shown
        /\ fig.crypto.shown =>
              LET key == CacheKey(crypto_symbol(crypto), prob_df)
              IN  /\ key \in DOMAIN crypto_cache
                  /\ crypto_cache[key] \in ConnectorSeries(key)
                  /\ fig.crypto.x = IndexOf(crypto_cache[key])
                  /\ fig.crypto.y = ValuesOf(crypto_cache[key])

\* C17 witness: a chart was drawn with an overlay just fetched whose
\* timestamps are not the table's rows.
C17_Witness ==
    /\ run.kind = "rendered"
    /\ run.kr_call.made
    /\ fig.crypto.shown
    /\ Range(fig.crypto.x) # Range(prob_df.index)

====
